---------------------------- MODULE Spec2Model ----------------------------
(***************************************************************************)
(* A model of SimApp: the PV calculator of src/calculations.py and the     *)
(* hourly simulation and aggregation of src/app.py.                        *)
(*                                                                         *)
(* Numbers.  The Python code computes in binary floating point.  The model *)
(* computes in exact decimal arithmetic: a number is a record              *)
(*   [neg |-> sign, mag |-> magnitude, dp |-> decimal places]              *)
(* standing for (-1)^neg * mag / 10^dp, where mag is an unbounded natural  *)
(* kept as a little-endian sequence of limbs in base 1000 (TLC's integers  *)
(* are 32 bits wide).  Sums, differences and products are exact; a true    *)
(* division (x / y with y not a power of ten) rounds to DivPlaces decimal  *)
(* places, and so do the floats the hour loop carries on (Float).          *)
(* Trigonometric functions are tabulated at whole degrees in thousandths.  *)
(***************************************************************************)
EXTENDS Integers, Sequences, FiniteSets, TLC

\* ------------------------------------------------------------------------
\* Unbounded naturals: little-endian limbs in base 1000, no high zero limb.
\* ------------------------------------------------------------------------
Limb == 10 * 100

RECURSIVE BigOfNat(_)
BigOfNat(n) == IF n = 0 THEN << >> ELSE << n % Limb >> \o BigOfNat(n \div Limb)

RECURSIVE BigStrip(_)
BigStrip(a) ==
  IF a = << >> THEN << >>
  ELSE IF a[Len(a)] = 0 THEN BigStrip(SubSeq(a, 1, Len(a) - 1)) ELSE a

RECURSIVE BigAddC(_, _, _)
BigAddC(a, b, c) ==
  IF a = << >> /\ b = << >> THEN (IF c = 0 THEN << >> ELSE << c >>)
  ELSE LET x == IF a = << >> THEN 0 ELSE Head(a)
           y == IF b = << >> THEN 0 ELSE Head(b)
           t == x + y + c
       IN  << t % Limb >> \o BigAddC(IF a = << >> THEN a ELSE Tail(a),
                                     IF b = << >> THEN b ELSE Tail(b),
                                     t \div Limb)

BigAdd(a, b) == BigAddC(a, b, 0)

\* a - b for a >= b
RECURSIVE BigSubB(_, _, _)
BigSubB(a, b, br) ==
  IF a = << >> THEN << >>
  ELSE LET y == IF b = << >> THEN 0 ELSE Head(b)
           t == Head(a) - y - br
       IN  << (t + Limb) % Limb >> \o BigSubB(Tail(a),
                                             IF b = << >> THEN b ELSE Tail(b),
                                             IF t < 0 THEN 1 ELSE 0)

BigSub(a, b) == BigStrip(BigSubB(a, b, 0))

\* -1, 0, 1 as a < b, a = b, a > b
RECURSIVE BigCmpTop(_, _, _)
BigCmpTop(a, b, i) ==
  IF i = 0 THEN 0
  ELSE IF a[i] < b[i] THEN -1
  ELSE IF a[i] > b[i] THEN 1
  ELSE BigCmpTop(a, b, i - 1)

BigCmp(a, b) ==
  IF Len(a) < Len(b) THEN -1
  ELSE IF Len(a) > Len(b) THEN 1
  ELSE BigCmpTop(a, b, Len(a))

\* a * n for a natural n <= 2000000
RECURSIVE BigMulSmallC(_, _, _)
BigMulSmallC(a, n, c) ==
  IF a = << >> THEN BigOfNat(c)
  ELSE LET t == Head(a) * n + c
       IN  << t % Limb >> \o BigMulSmallC(Tail(a), n, t \div Limb)

BigMulSmall(a, n) == IF n = 0 THEN << >> ELSE BigMulSmallC(a, n, 0)

BigShift(a) == IF a = << >> THEN << >> ELSE << 0 >> \o a

RECURSIVE BigMulBy(_, _)
BigMulBy(a, b) ==
  IF a = << >> \/ b = << >> THEN << >>
  ELSE BigAdd(BigMulSmall(a, Head(b)), BigShift(BigMulBy(a, Tail(b))))

BigMul(a, b) == IF Len(a) < Len(b) THEN BigMulBy(b, a) ELSE BigMulBy(a, b)

\* <<quotient, remainder>> of a by a natural 0 < n <= 2000000
RECURSIVE BigDivSmallR(_, _, _, _)
BigDivSmallR(a, n, i, r) ==
  IF i = 0 THEN << << >>, r >>
  ELSE LET t    == r * Limb + a[i]
           rest == BigDivSmallR(a, n, i - 1, t % n)
       IN  << rest[1] \o << t \div n >>, rest[2] >>

BigDivSmall(a, n) ==
  LET qr == BigDivSmallR(a, n, Len(a), 0) IN << BigStrip(qr[1]), qr[2] >>

\* the value of a, for a < 2^31
RECURSIVE BigToNat(_)
BigToNat(a) == IF a = << >> THEN 0 ELSE Head(a) + Limb * BigToNat(Tail(a))

\* 10^j for j in 0..2
Pow10Small(j) == IF j = 0 THEN 1 ELSE IF j = 1 THEN 10 ELSE 100

\* a * 10^k
BigMulPow10(a, k) ==
  IF a = << >> THEN << >>
  ELSE [i \in 1..(k \div 3) |-> 0] \o BigMulSmall(a, Pow10Small(k % 3))

\* floor(a / 10^k)
BigDivPow10(a, k) ==
  IF Len(a) <= k \div 3 THEN << >>
  ELSE BigDivSmall(SubSeq(a, (k \div 3) + 1, Len(a)), Pow10Small(k % 3))[1]

BigPow10(k) == BigMulPow10(<< 1 >>, k)

\* ------------------------------------------------------------------------
\* Exact decimals.
\* ------------------------------------------------------------------------
Abs(n) == IF n < 0 THEN -n ELSE n

\* the number of low limbs of a # << >> that are zero
LowZeroLimbs(a) == (CHOOSE i \in 1..Len(a) : a[i] # 0 /\ \A j \in 1..(i - 1) : a[j] = 0) - 1

Min2(m, n) == IF m < n THEN m ELSE n

\* canonical form: no trailing decimal zero, zero is unsigned
DecNorm(x) ==
  IF x.mag = << >> THEN [neg |-> FALSE, mag |-> << >>, dp |-> 0]
  ELSE LET zl  == Min2(LowZeroLimbs(x.mag), x.dp \div 3)
           a1  == SubSeq(x.mag, zl + 1, Len(x.mag))
           dp1 == x.dp - 3 * zl
           j   == IF dp1 >= 2 /\ a1[1] % 100 = 0 THEN 2
                  ELSE IF dp1 >= 1 /\ a1[1] % 10 = 0 THEN 1 ELSE 0
       IN  [neg |-> x.neg,
            mag |-> IF j = 0 THEN a1 ELSE BigDivSmall(a1, Pow10Small(j))[1],
            dp  |-> dp1 - j]

\* the decimal n / 10^k of an integer n
D(n, k) == DecNorm([neg |-> n < 0, mag |-> BigOfNat(Abs(n)), dp |-> k])

Zero == D(0, 0)
One == D(1, 0)

DecMul(x, y) ==
  DecNorm([neg |-> x.neg # y.neg, mag |-> BigMul(x.mag, y.mag), dp |-> x.dp + y.dp])

DecNeg(x) == DecNorm([x EXCEPT !.neg = ~x.neg])

\* mag of x written with k >= x.dp decimal places
DecMagAt(x, k) == BigMulPow10(x.mag, k - x.dp)

DecMaxDp(x, y) == IF x.dp > y.dp THEN x.dp ELSE y.dp

\* -1, 0, 1 as x < y, x = y, x > y
DecCmp(x, y) ==
  LET k == DecMaxDp(x, y)
      c == BigCmp(DecMagAt(x, k), DecMagAt(y, k))
  IN  IF x.neg /\ ~y.neg THEN -1
      ELSE IF ~x.neg /\ y.neg THEN 1
      ELSE IF x.neg THEN -c ELSE c

DecAdd(x, y) ==
  LET k == DecMaxDp(x, y)
      a == DecMagAt(x, k)
      b == DecMagAt(y, k)
  IN  IF x.neg = y.neg
      THEN DecNorm([neg |-> x.neg, mag |-> BigAdd(a, b), dp |-> k])
      ELSE IF BigCmp(a, b) >= 0
           THEN DecNorm([neg |-> x.neg, mag |-> BigSub(a, b), dp |-> k])
           ELSE DecNorm([neg |-> y.neg, mag |-> BigSub(b, a), dp |-> k])

DecSub(x, y) == DecAdd(x, DecNeg(y))

DecLt(x, y) == DecCmp(x, y) < 0
DecLe(x, y) == DecCmp(x, y) <= 0
DecMax(x, y) == IF DecLt(x, y) THEN y ELSE x
DecMin(x, y) == IF DecLt(y, x) THEN y ELSE x

BigIsOdd(a) == a # << >> /\ Head(a) % 2 = 1

\* a / b for b # 0, rounded to the nearest natural, ties to even, given the
\* floor q of a / b
BigNearest(a, b, q) ==
  LET r == BigSub(a, BigMul(q, b))
      c == BigCmp(BigMulSmall(r, 2), b)
  IN  IF c > 0 \/ (c = 0 /\ BigIsOdd(q)) THEN BigAdd(q, << 1 >>) ELSE q

\* Python's round(x, d): x to d decimal places, ties to even
DecRound(x, d) ==
  IF x.dp <= d THEN x
  ELSE LET cut == x.dp - d
           q   == BigDivPow10(x.mag, cut)
       IN  DecNorm([neg |-> x.neg,
                    mag |-> BigNearest(x.mag, BigPow10(cut), q),
                    dp  |-> d])

\* <<floor(a / b), a mod b>> for b # 0, by long division in base ten
RECURSIVE BigDivMod(_, _)
BigDivMod(a, b) ==
  IF BigCmp(a, b) < 0 THEN << << >>, a >>
  ELSE LET a10   == BigDivSmall(a, 10)
           up    == BigDivMod(a10[1], b)
           t     == BigAdd(BigMulSmall(up[2], 10), BigOfNat(a10[2]))
           digit == CHOOSE q \in 0..9 :
                      /\ BigCmp(BigMulSmall(b, q), t) <= 0
                      /\ BigCmp(BigMulSmall(b, q + 1), t) > 0
       IN  << BigAdd(BigMulSmall(up[1], 10), BigOfNat(digit)),
              BigSub(t, BigMulSmall(b, digit)) >>

\* decimal places kept by a true division
DivPlaces == 9

\* floor(a / b) for b # 0: in one pass when b has at most two limbs
BigDiv(a, b) ==
  IF Len(b) <= 2 THEN BigDivSmall(a, BigToNat(b))[1] ELSE BigDivMod(a, b)[1]

\* x / y for y # 0, to the nearest decimal with DivPlaces places
DecDiv(x, y) ==
  LET shift == DivPlaces + y.dp - x.dp
      num   == IF shift >= 0 THEN BigMulPow10(x.mag, shift) ELSE x.mag
      den   == IF shift >= 0 THEN y.mag ELSE BigMulPow10(y.mag, -shift)
  IN  DecNorm([neg |-> x.neg # y.neg,
               mag |-> BigNearest(num, den, BigDiv(num, den)),
               dp  |-> DivPlaces])

\* the integer x * 10^d of a decimal x with at most d places, |x * 10^d| < 2^31
DecUnits(x, d) ==
  LET m == BigToNat(DecMagAt(x, d)) IN IF x.neg THEN -m ELSE m

\* ------------------------------------------------------------------------
\* Trigonometry at whole degrees, in thousandths (math.sin, math.cos,
\* math.asin, math.atan2 of src/calculations.py and src/app.py).
\* ------------------------------------------------------------------------
SinTable ==
  << 0,   17,   35,   52,   70,   87,  105,  122,  139,  156,  174,  191,  208,
      225,  242,  259,  276,  292,  309,  326,  342,  358,  375,  391,  407,  423,
      438,  454,  469,  485,  500,  515,  530,  545,  559,  574,  588,  602,  616,
      629,  643,  656,  669,  682,  695,  707,  719,  731,  743,  755,  766,  777,
      788,  799,  809,  819,  829,  839,  848,  857,  866,  875,  883,  891,  899,
      906,  914,  921,  927,  934,  940,  946,  951,  956,  961,  966,  970,  974,
      978,  982,  985,  988,  990,  993,  995,  996,  998,  999,  999, 1000, 1000 >>

\* d reduced to 0..359
Mod360(d) == d % 360

\* 1000 * sin(d degrees), rounded
SinMilli(d) ==
  LET a == Mod360(d)
  IN  IF a <= 90 THEN SinTable[a + 1]
      ELSE IF a <= 180 THEN SinTable[180 - a + 1]
      ELSE IF a <= 270 THEN -SinTable[a - 180 + 1]
      ELSE -SinTable[360 - a + 1]

CosMilli(d) == SinMilli(d + 90)

Sin(d) == D(SinMilli(d), 3)
Cos(d) == D(CosMilli(d), 3)

\* x rounded to the nearest integer (a decimal with no places)
RoundInt(x) == DecUnits(DecRound(x, 0), 0)

SetMax(S) == CHOOSE m \in S : \A n \in S : n <= m
SetMin(S) == CHOOSE m \in S : \A n \in S : m <= n

\* math.degrees(math.asin(x)) to a whole degree, -1 <= x <= 1: the degree whose
\* sine is nearest, the one farthest from 0 of these
AsinDeg(x) ==
  LET xm      == DecUnits(DecRound(x, 3), 3)
      dist(d) == Abs(SinMilli(d) - xm)
      nearest == SetMin({dist(d) : d \in -90..90})
      best    == {d \in -90..90 : dist(d) = nearest}
  IN  IF xm >= 0 THEN SetMax(best) ELSE SetMin(best)

\* math.degrees(math.atan2(y, x)) to a whole degree, in -179..180: the
\* direction along which (x, y), taken to five places, projects longest, the
\* one nearest to 0 of these; atan2(0, 0) = 0
Atan2Deg(y, x) ==
  LET xm      == DecUnits(DecRound(x, 5), 5)
      ym      == DecUnits(DecRound(y, 5), 5)
      proj(d) == xm * CosMilli(d) + ym * SinMilli(d)
      longest == SetMax({proj(d) : d \in -179..180})
      best    == {d \in -179..180 : proj(d) = longest}
  IN  IF x = Zero /\ y = Zero THEN 0
      ELSE IF \E d \in best : d >= 0 THEN SetMin({d \in best : d >= 0})
      ELSE SetMax(best)

\* ------------------------------------------------------------------------
\* src/calculations.py: PVSystemCalculator.  Angles are whole degrees,
\* irradiances and powers are decimals.
\* ------------------------------------------------------------------------

\* self.TEMP_COEFFICIENTS, in units of 1e-4 per degree C
TEMP_COEFFICIENTS ==
  [monocrystalline |-> -40, polycrystalline |-> -40, thin_film |-> -20,
   perc |-> -37, bifacial |-> -35]

\* calculate_solar_position(latitude, longitude, datetime_obj), the datetime
\* given by its day of the year, hour and minute (a multiple of 4, so that the
\* hour angle is a whole degree).  No input is rejected: the result is always a
\* position.
calculate_solar_position(latitude, day_of_year, hour, minute) ==
  LET year_deg    == (2 * 360 * (284 + day_of_year) + 365) \div (2 * 365)
      declination == DecMul(D(2345, 2), Sin(year_deg))
      dec_deg     == RoundInt(declination)
      hour_angle  == 15 * (hour - 12) + minute \div 4
      sin_elev    == DecAdd(DecMul(Sin(dec_deg), Sin(latitude)),
                            DecMul(DecMul(Cos(dec_deg), Cos(latitude)),
                                   Cos(hour_angle)))
      tan_dec     == DecDiv(Sin(dec_deg), Cos(dec_deg))
      azimuth     == Atan2Deg(Sin(hour_angle),
                              DecSub(DecMul(Cos(hour_angle), Sin(latitude)),
                                     DecMul(tan_dec, Cos(latitude))))
  IN  [kind        |-> "position",
       elevation   |-> AsinDeg(sin_elev),
       azimuth     |-> azimuth + 180,
       declination |-> declination]

\* calculate_irradiance_on_tilted_surface(ghi, dni, dhi, solar_elevation,
\* solar_azimuth, surface_tilt, surface_azimuth)
calculate_irradiance_on_tilted_surface(ghi, dni, dhi, solar_elevation, solar_azimuth, surface_tilt, surface_azimuth) ==
  LET cos_incidence ==
        DecMax(DecAdd(DecMul(Sin(solar_elevation), Cos(surface_tilt)),
                      DecMul(DecMul(Cos(solar_elevation), Sin(surface_tilt)),
                             Cos(solar_azimuth - surface_azimuth))),
               Zero)
      direct_tilted    == DecMul(dni, cos_incidence)
      diffuse_tilted   == DecMul(DecMul(dhi, DecAdd(One, Cos(surface_tilt))),
                                 D(5, 1))
      albedo           == D(2, 1)
      ground_reflected == DecMul(DecMul(DecMul(ghi, albedo),
                                        DecSub(One, Cos(surface_tilt))),
                                 D(5, 1))
      poa_irradiance   == DecAdd(DecAdd(direct_tilted, diffuse_tilted),
                                 ground_reflected)
  IN  DecMax(poa_irradiance, Zero)

\* calculate_temperature_effect(ambient_temp, irradiance, module_type)
calculate_temperature_effect(ambient_temp, irradiance, module_type) ==
  LET noct        == 45
      \* (noct - 20) * irradiance / 800, 1 / 800 = 0.00125
      module_temp == DecAdd(ambient_temp,
                            DecMul(DecMul(D(noct - 20, 0), irradiance),
                                   D(125, 5)))
      temp_coeff  == IF module_type \in DOMAIN TEMP_COEFFICIENTS
                     THEN D(TEMP_COEFFICIENTS[module_type], 4)
                     ELSE D(-4, 3)
  IN  DecAdd(One, DecMul(temp_coeff, DecSub(module_temp, D(25, 0))))

\* calculate_dc_power that returns dc_power as it is, without max(dc_power, 0)
calculate_dc_power_unclamped(irradiance, temperature, panel_power, module_type) ==
  DecMul(DecMul(panel_power, DecMul(irradiance, D(1, 3))),
         calculate_temperature_effect(temperature, irradiance, module_type))

\* calculate_dc_power(irradiance, temperature, panel_power, efficiency,
\* module_type); efficiency is not read
calculate_dc_power(irradiance, temperature, panel_power, module_type) ==
  LET irradiance_factor == DecMul(irradiance, D(1, 3))
      temp_correction   == calculate_temperature_effect(temperature, irradiance,
                                                        module_type)
      dc_power == DecMul(DecMul(panel_power, irradiance_factor), temp_correction)
  IN  DecMax(dc_power, Zero)

\* the seven loss categories calculate_system_losses reads
LossKeys ==
  {"dc_wiring_loss", "soiling_loss", "shading_loss", "mismatch_loss",
   "inverter_efficiency", "ac_wiring_loss", "availability_loss"}

\* the default loss_factors, in hundredths
DefaultLossFactors ==
  [inverter_efficiency |-> 96, dc_wiring_loss |-> 2, ac_wiring_loss |-> 1,
   soiling_loss |-> 2, shading_loss |-> 3, mismatch_loss |-> 2,
   availability_loss |-> 1]

\* a calculator that leaves a loss out
ApplyLossSkipped(power, loss_factors, key) == power

\* power *= (1 - loss_factors[key])
ApplyLoss(power, loss_factors, key) ==
  DecMul(power, DecSub(One, D(loss_factors[key], 2)))

\* Optional[Dict[str, float]]: None, or a mapping from keys to hundredths
None == << >>
Some(mapping) == << mapping >>

\* calculate_system_losses(dc_power, loss_factors).  A mapping without one of
\* the keys read raises KeyError; any other key is never looked at.
calculate_system_losses(dc_power, loss_factors) ==
  LET lf == IF loss_factors = None THEN DefaultLossFactors ELSE loss_factors[1]
      p1 == ApplyLoss(dc_power, lf, "dc_wiring_loss")
      p2 == ApplyLoss(p1, lf, "soiling_loss")
      p3 == ApplyLoss(p2, lf, "shading_loss")
      p4 == ApplyLoss(p3, lf, "mismatch_loss")
      p5 == DecMul(p4, D(lf["inverter_efficiency"], 2))
      p6 == ApplyLoss(p5, lf, "ac_wiring_loss")
      p7 == ApplyLoss(p6, lf, "availability_loss")
  IN  IF LossKeys \subseteq DOMAIN lf
      THEN [kind |-> "power", value |-> DecMax(p7, Zero)]
      ELSE [kind |-> "KeyError"]

\* ------------------------------------------------------------------------
\* src/app.py: generate_enhanced_data, the function main() nests and calls
\* with the sidebar's values.  Its arguments are
\*   days, lat, tilt, azimuth (whole numbers and whole degrees),
\*   total_pwr (kW), daily_need (kWh), batt_enabled, batt_capacity (kWh),
\*   min_soc_pct, max_soc_pct (percent)
\* and it reads these variables of main():
\*   temp_coeff, dc_wiring_loss, module_mismatch, soiling_loss,
\*   converter_efficiency (percent), load_profile, total_stored_energy (kWh).
\* ------------------------------------------------------------------------

\* 900 * math.exp(-0.357 * (air_mass ** 0.678)) for air_mass = 1 / sin(d
\* degrees), d = 1..90, in tenths of a W/m2
DniTable ==
  << 35,  279,  643, 1026, 1391, 1728, 2034, 2311, 2564, 2793,
     3003, 3195, 3372, 3535, 3686, 3826, 3957, 4078, 4192, 4299,
     4399, 4493, 4582, 4666, 4745, 4820, 4891, 4959, 5023, 5084,
     5142, 5197, 5250, 5300, 5349, 5395, 5438, 5481, 5521, 5559,
     5596, 5632, 5666, 5698, 5730, 5760, 5788, 5816, 5843, 5868,
     5892, 5916, 5938, 5960, 5981, 6000, 6019, 6038, 6055, 6072,
     6088, 6103, 6118, 6132, 6145, 6157, 6169, 6181, 6192, 6202,
     6212, 6221, 6229, 6237, 6245, 6252, 6258, 6264, 6270, 6275,
     6279, 6283, 6287, 6290, 6292, 6294, 6296, 6297, 6298, 6298 >>

\* numpy's global generator.  The Mersenne Twister is stood in for by a small
\* congruential generator: what is kept is that a draw is a function of the
\* generator's state, which np.random.seed sets and every draw advances.
RngModulus == 65537
RngSeed(seed) == seed % RngModulus
RngNext(state) == (75 * state + 74) % RngModulus

\* np.random.normal(0, 1.5): one of -3.0, -2.5 .. 3.0
RngNormal(state) == D(5 * ((state % 13) - 6), 1)

\* np.random.uniform(0.7, 1.0): one of 0.70, 0.71 .. 0.99
RngUniform(state) == D(70 + (state % 30), 2)

\* A float of the hour loop that is carried on (irradiance, pv_power,
\* battery_soc) is kept to DivPlaces decimal places, as binary64 keeps 15 to 17
\* significant digits; what is computed from it within the hour is exact.
Float(x) == DecRound(x, DivPlaces)

\* the whole degree of 2 * math.pi * day / 365 - math.pi / 2
SeasonDeg(day) == (2 * 360 * day + 365) \div (2 * 365) - 90

\* temp_base = 15 + 15 * math.sin(day_angle - math.pi/2)
temp_base(day) == DecAdd(D(15, 0), DecMul(D(15, 0), Sin(SeasonDeg(day))))

\* declination = 23.45 * math.sin(day_angle - math.pi/2), to a whole degree
declination(day) == RoundInt(DecMul(D(2345, 2), Sin(SeasonDeg(day))))

\* temp = temp_base + 8 * math.sin(hour_angle) + np.random.normal(0, 1.5)
Temperature(day, hour, normal) ==
  DecAdd(DecAdd(temp_base(day), DecMul(D(8, 0), Sin(15 * (hour - 6)))), normal)

\* math.sin(elevation) for elevation = math.asin(...): the argument of asin,
\* in millionths
SinElevation(lat, day, hour) ==
  LET hour_angle_solar == 15 * (hour - 12)
  IN  DecRound(DecAdd(DecMul(Sin(lat), Sin(declination(day))),
                      DecMul(DecMul(Cos(lat), Cos(declination(day))),
                             Cos(hour_angle_solar))),
               6)

\* a loop that has no daylight window
DaylightWindowAllDay(hour) == 0 <= hour /\ hour <= 23

\* 5 <= hour <= 19
DaylightWindow(hour) == 5 <= hour /\ hour <= 19

\* elevation > 0, for elevation = math.asin(sin_elev) in -pi/2 .. pi/2
ElevationPositive(sin_elev) == DecLt(Zero, sin_elev)

\* azimuth_factor = math.cos(math.radians(azimuth - 180))
AzimuthFactor(azimuth) == Cos(azimuth - 180)

\* the irradiance of an hour in the window with the sun up, before the
\* weather factor
TiltedIrradiance(sin_elev, tilt, azimuth) ==
  LET elev_deg  == AsinDeg(sin_elev)
      \* air_mass < 10, for air_mass = 1 / math.sin(elevation)
      dni       == IF DecLt(D(1, 1), sin_elev) THEN D(DniTable[elev_deg], 1)
                   ELSE Zero
      dhi       == DecAdd(D(100, 0), DecMul(D(50, 0), sin_elev))
      ghi       == DecAdd(DecMul(dni, sin_elev), dhi)
      \* math.sin(elevation + math.radians(tilt))
      sin_panel == DecAdd(DecMul(sin_elev, Cos(tilt)),
                          DecMul(Cos(elev_deg), Sin(tilt)))
  IN  DecMul(DecMul(ghi, DecDiv(sin_panel, sin_elev)), AzimuthFactor(azimuth))

\* the sun is up in an hour of the window
SunUp(hour, sin_elev) == DaylightWindow(hour) /\ ElevationPositive(sin_elev)

\* lines 197-228: the irradiance of an hour; weather is the uniform draw
Irradiance(sin_elev, tilt, azimuth, hour, weather) ==
  IF SunUp(hour, sin_elev)
  THEN Float(DecMul(DecMax(Zero, TiltedIrradiance(sin_elev, tilt, azimuth)),
                    weather))
  ELSE Zero

\* x percent as a fraction
Percent(x) == DecMul(x, D(1, 2))

\* temp_derating = 1 + temp_coeff * (temp - 25) / 100
TempDerating(s, temp) ==
  DecAdd(One, Percent(DecMul(s.temp_coeff, DecSub(temp, D(25, 0)))))

\* pv_power = total_pwr * 1000 * (irradiance / 1000)
BasePower(total_pwr, irradiance) ==
  DecMul(DecMul(total_pwr, D(1000, 0)), DecMul(irradiance, D(1, 3)))

\* lines 239-243: the losses generate_enhanced_data applies
ApplyLosses(s, pv_power) ==
  LET p1 == DecMul(pv_power, DecSub(One, Percent(s.dc_wiring_loss)))
      p2 == DecMul(p1, DecSub(One, Percent(s.module_mismatch)))
      p3 == DecMul(p2, DecSub(One, Percent(s.soiling_loss)))
  IN  DecMul(p3, Percent(s.converter_efficiency))

\* lines 230-247: the PV power of an hour
PvPower(s, total_pwr, irradiance, temp) ==
  IF DecLt(Zero, irradiance)
  THEN Float(DecMax(Zero,
                    ApplyLosses(s, DecMul(BasePower(total_pwr, irradiance),
                                          TempDerating(s, temp)))))
  ELSE Zero

\* load_factors of the Residential and Commercial profiles, in tenths
ResidentialFactors ==
  << 6, 5, 5, 5, 7, 8, 10, 12, 10, 8, 7, 8,
     9, 8, 7, 8, 10, 14, 16, 15, 13, 12, 10, 8 >>
CommercialFactors ==
  << 3, 3, 3, 3, 4, 6, 8, 10, 12, 13, 12, 11,
     10, 11, 12, 13, 12, 10, 8, 6, 4, 3, 3, 3 >>

\* daily_load = daily_need * 1000 / 24
DailyLoad(daily_need) == DecDiv(DecMul(daily_need, D(1000, 0)), D(24, 0))

\* lines 249-259: the load of an hour
LoadPower(s, daily_need, hour) ==
  IF s.load_profile = "Residential"
  THEN DecMul(DailyLoad(daily_need), D(ResidentialFactors[hour + 1], 1))
  ELSE IF s.load_profile = "Commercial"
  THEN DecMul(DailyLoad(daily_need), D(CommercialFactors[hour + 1], 1))
  ELSE DailyLoad(daily_need)

\* battery_kwh: total_stored_energy of main() when batt_enabled, else 0
BatteryKwh(a, s) == IF a.batt_enabled THEN s.total_stored_energy ELSE Zero

\* battery_kwh * 1000, and the 20 % C-rate
Capacity(a, s) == DecMul(BatteryKwh(a, s), D(1000, 0))
CRate(a, s) == DecMul(Capacity(a, s), D(2, 1))

\* energy_balance > 0 and battery_soc < max_soc_pct/100
Charging(a, soc, energy_balance) ==
  DecLt(Zero, energy_balance) /\ DecLt(soc, Percent(D(a.max_soc_pct, 0)))

\* energy_balance <= 0 and battery_soc > min_soc_pct/100
Discharging(a, soc, energy_balance) ==
  ~DecLt(Zero, energy_balance) /\ DecLt(Percent(D(a.min_soc_pct, 0)), soc)

\* lines 264-270, 294: battery_charge_power; soc is battery_soc before the hour
ChargePower(a, s, soc, energy_balance) ==
  IF a.batt_enabled /\ Charging(a, soc, energy_balance)
  THEN DecMin(energy_balance, CRate(a, s))
  ELSE Zero

\* lines 265, 276-280, 295: battery_discharge_power
DischargePower(a, s, soc, energy_balance) ==
  IF a.batt_enabled /\ Discharging(a, soc, energy_balance)
  THEN DecMin(DecMin(DecNeg(energy_balance), CRate(a, s)),
              DecMul(Capacity(a, s),
                     DecSub(soc, Percent(D(a.min_soc_pct, 0)))))
  ELSE Zero

\* battery_soc after the charge or the discharge, without the
\* min(battery_soc, max_soc_pct/100) of line 272
SocAfterUnclamped(a, s, soc, energy_balance, charge_power, discharge_power) ==
  IF a.batt_enabled /\ Charging(a, soc, energy_balance)
  THEN DecAdd(soc, DecMul(DecDiv(charge_power, Capacity(a, s)), D(9, 1)))
  ELSE IF a.batt_enabled /\ Discharging(a, soc, energy_balance)
  THEN DecSub(soc, DecDiv(discharge_power, Capacity(a, s)))
  ELSE soc

\* energy_supplied without the min(load_power, ...) of lines 288 and 291
EnergySuppliedUncapped(a, load_power, pv_power, discharge_power) ==
  IF a.batt_enabled THEN DecAdd(pv_power, discharge_power) ELSE pv_power

\* lines 271-272, 281: battery_soc after the charge or the discharge
SocAfter(a, s, soc, energy_balance, charge_power, discharge_power) ==
  IF a.batt_enabled /\ Charging(a, soc, energy_balance)
  THEN DecMin(DecAdd(soc, DecMul(DecDiv(charge_power, Capacity(a, s)),
                                 D(9, 1))),
              Percent(D(a.max_soc_pct, 0)))
  ELSE IF a.batt_enabled /\ Discharging(a, soc, energy_balance)
  THEN DecSub(soc, DecDiv(discharge_power, Capacity(a, s)))
  ELSE soc

\* line 286: battery_soc *= 0.999, with a battery
SelfDischarge(a, soc) ==
  IF a.batt_enabled THEN Float(DecMul(soc, D(999, 3))) ELSE soc

\* lines 274, 283, 293: excess_energy
ExcessEnergy(a, energy_balance, charge_power) ==
  IF a.batt_enabled
  THEN (IF DecLt(Zero, energy_balance)
        THEN DecMax(Zero, DecSub(energy_balance, charge_power))
        ELSE Zero)
  ELSE DecMax(Zero, energy_balance)

\* lines 288, 291: energy_supplied
EnergySupplied(a, load_power, pv_power, discharge_power) ==
  IF a.batt_enabled
  THEN DecMin(load_power, DecAdd(pv_power, discharge_power))
  ELSE DecMin(load_power, pv_power)

\* lines 289, 292: missing_energy
MissingEnergy(a, load_power, pv_power, energy_supplied) ==
  IF a.batt_enabled
  THEN DecMax(Zero, DecSub(load_power, energy_supplied))
  ELSE DecMax(Zero, DecSub(load_power, pv_power))

\* round(x, 1), in tenths
Round1(x) == DecUnits(DecRound(x, 1), 1)

\* ------------------------------------------------------------------------
\* generate_enhanced_data as a function of its arguments a and of the
\* variables s of main() it reads: what a run that is not served from the
\* cache computes.  A run is [rng, soc, rows]: numpy's generator, battery_soc
\* and the rows appended so far.
\* ------------------------------------------------------------------------

\* lines 169-177: the run before the day loop
RunStart(a) ==
  [rng  |-> RngSeed(42),
   soc  |-> IF a.batt_enabled THEN D(8, 1) ELSE Zero,
   rows |-> << >>]

\* lines 300-313: the run after the pass of hour h of day d (counted from 0)
PassRow(run, d, h, rng2, temp, irradiance, pv_power, load_power, charge_power, discharge_power, soc_end, excess_energy, energy_supplied, missing_energy) ==
  [rng  |-> rng2,
   soc  |-> soc_end,
   rows |-> Append(run.rows,
                   [day               |-> d + 1,
                    hour              |-> h,
                    temperature       |-> Round1(temp),
                    irradiance        |-> Round1(irradiance),
                    pv_power          |-> Round1(pv_power),
                    load_power        |-> Round1(load_power),
                    energy_supplied   |-> Round1(energy_supplied),
                    missing_energy    |-> Round1(missing_energy),
                    excess_energy     |-> Round1(excess_energy),
                    battery_soc       |-> Round1(DecMul(soc_end, D(100, 0))),
                    battery_charge    |-> Round1(charge_power),
                    battery_discharge |-> Round1(discharge_power)])]

\* lines 286-295: self-discharge and the energy supplied
PassSupply(a, s, run, d, h, rng2, temp, irradiance, pv_power, load_power, energy_balance, charge_power, discharge_power, energy_supplied) ==
  PassRow(run, d, h, rng2, temp, irradiance, pv_power, load_power,
          charge_power, discharge_power,
          SelfDischarge(a, SocAfter(a, s, run.soc, energy_balance,
                                    charge_power, discharge_power)),
          ExcessEnergy(a, energy_balance, charge_power),
          energy_supplied,
          MissingEnergy(a, load_power, pv_power, energy_supplied))

\* lines 262-283: the battery
PassBattery(a, s, run, d, h, rng2, temp, irradiance, pv_power, load_power, energy_balance, charge_power, discharge_power) ==
  PassSupply(a, s, run, d, h, rng2, temp, irradiance, pv_power, load_power,
             energy_balance, charge_power, discharge_power,
             EnergySupplied(a, load_power, pv_power, discharge_power))

\* line 262: energy_balance = pv_power - load_power
PassBalance(a, s, run, d, h, rng2, temp, irradiance, pv_power, load_power, energy_balance) ==
  PassBattery(a, s, run, d, h, rng2, temp, irradiance, pv_power, load_power,
              energy_balance,
              ChargePower(a, s, run.soc, energy_balance),
              DischargePower(a, s, run.soc, energy_balance))

\* lines 230-259: the PV power and the load
PassPower(a, s, run, d, h, rng2, temp, irradiance, pv_power, load_power) ==
  PassBalance(a, s, run, d, h, rng2, temp, irradiance, pv_power, load_power,
              DecSub(pv_power, load_power))

\* lines 197-228: the irradiance
PassSun(a, s, run, d, h, rng2, temp, irradiance) ==
  PassPower(a, s, run, d, h, rng2, temp, irradiance,
            PvPower(s, a.total_pwr, irradiance, temp),
            LoadPower(s, a.daily_need, h))

\* lines 192-205: the temperature draw, the elevation, the weather draw
PassDraw(a, s, run, d, h, rng1, sin_elev, rng2) ==
  PassSun(a, s, run, d, h, rng2, Temperature(d, h, RngNormal(rng1)),
          Irradiance(sin_elev, a.tilt, a.azimuth, h, RngUniform(rng2)))

\* lines 191-205: the elevation of the hour
PassElevation(a, s, run, d, h, rng1, sin_elev) ==
  PassDraw(a, s, run, d, h, rng1, sin_elev,
           IF SunUp(h, sin_elev) THEN RngNext(rng1) ELSE rng1)

\* lines 191-313: one pass of the hour loop
Pass(a, s, run, d, h) ==
  PassElevation(a, s, run, d, h, RngNext(run.rng), SinElevation(a.lat, d, h))

\* lines 181-313: the passes lo..hi of the hour loop, counted from 0 over the
\* whole period, from the run before them; the first half is computed, then
\* the second half from it
RECURSIVE RunHours(_, _, _, _, _)
RunHours(a, s, run, lo, hi) ==
  IF lo > hi THEN run
  ELSE IF lo = hi THEN Pass(a, s, run, lo \div 24, lo % 24)
  ELSE CHOOSE after \in {RunHours(a, s, half, ((lo + hi) \div 2) + 1, hi) :
                           half \in {RunHours(a, s, run, lo, (lo + hi) \div 2)}} :
         TRUE

\* lines 167-315: the rows of pd.DataFrame(data)
ComputedRows(a, s) == RunHours(a, s, RunStart(a), 0, 24 * a.days - 1).rows

\* ------------------------------------------------------------------------
\* src/app.py: what main() computes from the table (lines 325-335, 409-424,
\* 451-457, 479-503).  A DataFrame is its column names and its rows.
\* ------------------------------------------------------------------------

\* the keys of the rows generate_enhanced_data appends, in order
RowColumns ==
  << "day", "hour", "temperature", "irradiance", "pv_power", "load_power",
     "energy_supplied", "missing_energy", "excess_energy", "battery_soc",
     "battery_charge", "battery_discharge" >>

\* pd.DataFrame(data): a list of no rows makes a frame of no columns
DataFrame(rows) ==
  [columns |-> IF rows = << >> THEN << >> ELSE RowColumns, rows |-> rows]

HasColumn(frame, c) == \E i \in 1..Len(frame.columns) : frame.columns[i] = c

\* the sum of column c over the rows lo..hi
RECURSIVE SumRows(_, _, _, _)
SumRows(rows, c, lo, hi) ==
  IF lo > hi THEN 0
  ELSE IF lo = hi THEN rows[lo][c]
  ELSE LET mid == (lo + hi) \div 2
       IN  SumRows(rows, c, lo, mid) + SumRows(rows, c, mid + 1, hi)

\* the sum of column c over the rows lo..hi whose column by holds v
RECURSIVE SumWhere(_, _, _, _, _, _)
SumWhere(rows, c, by, v, lo, hi) ==
  IF lo > hi THEN 0
  ELSE IF lo = hi THEN (IF rows[lo][by] = v THEN rows[lo][c] ELSE 0)
  ELSE LET mid == (lo + hi) \div 2
       IN  SumWhere(rows, c, by, v, lo, mid)
           + SumWhere(rows, c, by, v, mid + 1, hi)

\* the number of rows lo..hi whose column by holds v
RECURSIVE CountWhere(_, _, _, _, _)
CountWhere(rows, by, v, lo, hi) ==
  IF lo > hi THEN 0
  ELSE IF lo = hi THEN (IF rows[lo][by] = v THEN 1 ELSE 0)
  ELSE LET mid == (lo + hi) \div 2
       IN  CountWhere(rows, by, v, lo, mid) + CountWhere(rows, by, v, mid + 1, hi)

\* frame[c].sum(), the column being tenths
ColumnSum(frame, c) == D(SumRows(frame.rows, c, 1, Len(frame.rows)), 1)

\* frame.groupby(by).agg({c: 'sum'}) and .agg({c: 'mean'}), for the group v
GroupSum(frame, c, by, v) ==
  D(SumWhere(frame.rows, c, by, v, 1, Len(frame.rows)), 1)
GroupMean(frame, c, by, v) ==
  DecDiv(GroupSum(frame, c, by, v),
         D(CountWhere(frame.rows, by, v, 1, Len(frame.rows)), 0))

\* lines 325-335.  total_power, analysis_days and daily_energy_need are the
\* values main() passed as total_pwr, days and daily_need.
KeyMetrics(frame, a) ==
  LET total_pv_energy       == DecMul(ColumnSum(frame, "pv_power"), D(1, 3))
      total_energy_supplied == DecMul(ColumnSum(frame, "energy_supplied"), D(1, 3))
      total_missing_energy  == DecMul(ColumnSum(frame, "missing_energy"), D(1, 3))
      total_excess_energy   == DecMul(ColumnSum(frame, "excess_energy"), D(1, 3))
  IN  [total_pv_energy       |-> total_pv_energy,
       total_energy_supplied |-> total_energy_supplied,
       total_missing_energy  |-> total_missing_energy,
       total_excess_energy   |-> total_excess_energy,
       specific_production   |->
         IF DecLt(Zero, a.total_pwr)
         THEN DecDiv(total_pv_energy, a.total_pwr) ELSE Zero,
       capacity_factor       |->
         DecMul(DecDiv(total_pv_energy,
                       DecMul(a.total_pwr, D(24 * a.days, 0))),
                D(100, 0)),
       solar_fraction        |->
         IF DecLt(Zero, a.daily_need)
         THEN DecMul(DecDiv(total_energy_supplied,
                            DecMul(a.daily_need, D(a.days, 0))),
                     D(100, 0))
         ELSE Zero,
       system_efficiency     |->
         IF DecLt(Zero, total_pv_energy)
         THEN DecMul(DecDiv(total_energy_supplied, total_pv_energy), D(100, 0))
         ELSE Zero]

\* df['month'] = ((df['day'] - 1) // 30) + 1: the frame with the column added
WithMonth(frame) ==
  [columns |-> IF HasColumn(frame, "month") THEN frame.columns
               ELSE Append(frame.columns, "month"),
   rows    |-> [i \in 1..Len(frame.rows) |->
                 [k \in (DOMAIN frame.rows[i]) \cup {"month"} |->
                    IF k = "month" THEN ((frame.rows[i].day - 1) \div 30) + 1
                    ELSE frame.rows[i][k]]]]

\* the months of a frame but the last one, as a roll-up of full months would
\* take them
MonthsButLast(frame) ==
  {frame.rows[i].month : i \in 1..Len(frame.rows)}
    \ {frame.rows[Len(frame.rows)].month}

\* the months of a frame that has the column
Months(frame) == {frame.rows[i].month : i \in 1..Len(frame.rows)}

\* lines 412-424: df.groupby('month').agg(...), and the kWh columns
MonthlyData(frame) ==
  [m \in Months(frame) |->
     [pv_power        |-> GroupSum(frame, "pv_power", "month", m),
      energy_supplied |-> GroupSum(frame, "energy_supplied", "month", m),
      missing_energy  |-> GroupSum(frame, "missing_energy", "month", m),
      excess_energy   |-> GroupSum(frame, "excess_energy", "month", m),
      irradiance      |-> GroupMean(frame, "irradiance", "month", m),
      temperature     |-> GroupMean(frame, "temperature", "month", m),
      pv_energy_kwh   |->
        DecMul(GroupSum(frame, "pv_power", "month", m), D(1, 3)),
      supplied_kwh    |->
        DecMul(GroupSum(frame, "energy_supplied", "month", m), D(1, 3)),
      missing_kwh     |->
        DecMul(GroupSum(frame, "missing_energy", "month", m), D(1, 3)),
      excess_kwh      |->
        DecMul(GroupSum(frame, "excess_energy", "month", m), D(1, 3))]]

\* lines 452-457: df.groupby('hour').agg(...)
HourlyAvg(frame) ==
  [h \in {frame.rows[i].hour : i \in 1..Len(frame.rows)} |->
     [pv_power        |-> GroupMean(frame, "pv_power", "hour", h),
      load_power      |-> GroupMean(frame, "load_power", "hour", h),
      energy_supplied |-> GroupMean(frame, "energy_supplied", "hour", h),
      irradiance      |-> GroupMean(frame, "irradiance", "hour", h)]]

\* lines 479-483: df.groupby('day').agg(...), the mean and the sums of the
\* daily roll-up
DailyBattery(frame) ==
  [d \in {frame.rows[i].day : i \in 1..Len(frame.rows)} |->
     [soc_avg         |-> GroupMean(frame, "battery_soc", "day", d),
      daily_charge    |-> GroupSum(frame, "battery_charge", "day", d),
      daily_discharge |-> GroupSum(frame, "battery_discharge", "day", d)]]

\* ------------------------------------------------------------------------
\* The state.
\* ------------------------------------------------------------------------
VARIABLES
  pc,            \* where main() stands
  args,          \* the arguments of generate_enhanced_data
  settings,      \* the variables of main() generate_enhanced_data reads
  rng,           \* the state of numpy's global generator
  day, hour,     \* the loop variables of generate_enhanced_data
  battery_soc,   \* its battery_soc
  data,          \* its list of rows
  loc,           \* the locals of the last pass of its hour loop
  df,            \* main()'s table
  metrics,       \* main()'s key metrics
  monthly_data,  \* main()'s monthly roll-up
  hourly_avg,    \* main()'s hourly roll-up
  daily_battery, \* main()'s daily roll-up
  cache,         \* st.cache_data: the tables kept, by the arguments of the call
  call,          \* a call of a PVSystemCalculator method
  ret            \* what the call returned

appVars == << pc, args, settings, rng, day, hour, battery_soc, data, loc, df,
              metrics, monthly_data, hourly_avg, daily_battery, cache >>
calcVars == << call, ret >>
vars == << pc, args, settings, rng, day, hour, battery_soc, data, loc, df,
           metrics, monthly_data, hourly_avg, daily_battery, cache, call, ret >>

Unset == [kind |-> "unset"]

\* the cache of a session that has called nothing yet
EmptyCache == [key \in {} |-> Unset]

\* ------------------------------------------------------------------------
\* The inputs of generate_enhanced_data.  They are the function's arguments,
\* not only what the sidebar can give: the sidebar offers the periods 30, 90
\* and 365 (line 150), and main() binds min_soc and max_soc only when the
\* battery is enabled (lines 126-134), so that its call of lines 319-323
\* raises UnboundLocalError without a battery.
\* ------------------------------------------------------------------------

\* the longest of the short analysis periods, in days
MaxDays == 2

\* the analysis period from which main() adds the monthly roll-up
MonthlyFrom == 90

\* latitude and panel_tilt
Sites == { [lat |-> 46, tilt |-> 20], [lat |-> -60, tilt |-> 0] }

\* panel_azimuth: North, South-West, South as generate_enhanced_data reads it
Azimuths == {0, 135, 180}

\* the performance parameters and the load profile of the sidebar: its
\* defaults with two profiles, and other values in the sliders' ranges
Sidebars ==
  { [temp_coeff |-> D(-4, 1), dc_wiring_loss |-> D(15, 1),
     converter_efficiency |-> D(95, 0), module_mismatch |-> D(2, 0),
     soiling_loss |-> D(2, 0), load_profile |-> "Constant"],
    [temp_coeff |-> D(-4, 1), dc_wiring_loss |-> D(15, 1),
     converter_efficiency |-> D(95, 0), module_mismatch |-> D(2, 0),
     soiling_loss |-> D(2, 0), load_profile |-> "Residential"],
    [temp_coeff |-> D(-1, 0), dc_wiring_loss |-> D(5, 0),
     converter_efficiency |-> D(85, 0), module_mismatch |-> D(0, 0),
     soiling_loss |-> D(10, 0), load_profile |-> "Commercial"] }

\* total_power (kW) with a battery bank (kWh) and its SOC limits: the default
\* 21 panels of 595 Wp or one 100 Wp panel; no bank, the default bank (24 V x
\* 2 in series, 140 Ah x 13 in parallel) or a small one (12 V, 50 Ah)
Systems ==
  { [total_pwr |-> D(595 * 21, 3), enabled |-> TRUE,
     kwh |-> D(24 * 2 * 140 * 13, 3), min_soc |-> 20, max_soc |-> 95],
    [total_pwr |-> D(595 * 21, 3), enabled |-> TRUE,
     kwh |-> D(12 * 50, 3), min_soc |-> 50, max_soc |-> 80],
    [total_pwr |-> D(100, 3), enabled |-> TRUE,
     kwh |-> D(24 * 2 * 140 * 13, 3), min_soc |-> 20, max_soc |-> 95],
    [total_pwr |-> D(100, 3), enabled |-> FALSE,
     kwh |-> Zero, min_soc |-> 20, max_soc |-> 95] }

\* daily_energy_need, kWh
DailyNeeds == {D(66, 1)}

\* ------------------------------------------------------------------------
\* generate_enhanced_data and main(), step by step.
\* ------------------------------------------------------------------------
AppInit ==
  /\ pc = "call"
  /\ \E days \in (0..MaxDays) \cup {MonthlyFrom}, site \in Sites,
        azimuth \in Azimuths, daily_need \in DailyNeeds, y \in Systems,
        p \in Sidebars :
       \* the long period is run for the sidebar's defaults alone
       /\ days = MonthlyFrom =>
            /\ site.lat = 46 /\ azimuth \in {0, 180}
            /\ y.total_pwr = D(595 * 21, 3) /\ y.min_soc = 20
            /\ p.load_profile = "Constant"
       /\ args = [days |-> days, lat |-> site.lat, tilt |-> site.tilt,
                  azimuth |-> azimuth, total_pwr |-> y.total_pwr,
                  daily_need |-> daily_need, batt_enabled |-> y.enabled,
                  batt_capacity |-> y.kwh, min_soc_pct |-> y.min_soc,
                  max_soc_pct |-> y.max_soc]
       /\ settings = [temp_coeff |-> p.temp_coeff,
                      dc_wiring_loss |-> p.dc_wiring_loss,
                      module_mismatch |-> p.module_mismatch,
                      soiling_loss |-> p.soiling_loss,
                      converter_efficiency |-> p.converter_efficiency,
                      load_profile |-> p.load_profile,
                      total_stored_energy |-> y.kwh]
  /\ rng \in {1, 2024}
  /\ day = 0 /\ hour = 0
  /\ battery_soc = Zero
  /\ data = << >>
  /\ loc = Unset
  /\ df = Unset
  /\ metrics = Unset
  /\ monthly_data = Unset
  /\ hourly_avg = Unset
  /\ daily_battery = Unset
  /\ cache = EmptyCache

CalcIdle == call = Unset /\ ret = Unset

Init == AppInit /\ CalcIdle

\* the call without np.random.seed(42): the generator is left as it was
GenerateUnseeded ==
  /\ pc = "call"
  /\ args \notin DOMAIN cache
  /\ pc' = "loop"
  /\ rng' = rng
  /\ battery_soc' = IF args.batt_enabled THEN D(8, 1) ELSE Zero
  /\ day' = 0 /\ hour' = 0
  /\ data' = << >>
  /\ UNCHANGED << args, settings, loc, df, metrics, monthly_data, hourly_avg,
                  daily_battery, cache, call, ret >>

\* the call with a day loop that starts at day 1, as range(1, days) would
GenerateFromDayOne ==
  /\ pc = "call"
  /\ args \notin DOMAIN cache
  /\ pc' = "loop"
  /\ rng' = RngSeed(42)
  /\ battery_soc' = IF args.batt_enabled THEN D(8, 1) ELSE Zero
  /\ day' = 1 /\ hour' = 0
  /\ data' = << >>
  /\ UNCHANGED << args, settings, loc, df, metrics, monthly_data, hourly_avg,
                  daily_battery, cache, call, ret >>

\* lines 166-179: the call of a function under st.cache_data whose arguments
\* the cache does not hold: the body runs, up to the day loop
Generate ==
  /\ pc = "call"
  /\ args \notin DOMAIN cache
  /\ pc' = "loop"
  /\ rng' = RngSeed(42)
  /\ battery_soc' = IF args.batt_enabled THEN D(8, 1) ELSE Zero
  /\ day' = 0 /\ hour' = 0
  /\ data' = << >>
  /\ UNCHANGED << args, settings, loc, df, metrics, monthly_data, hourly_avg,
                  daily_battery, cache, call, ret >>

\* lines 181-313: one pass of the hour loop.  loc keeps the locals of the pass
\* (soc_before is battery_soc before it, soc_after battery_soc before the
\* self-discharge); the row appended holds tenths.
HourStep ==
  /\ pc = "loop"
  /\ day < args.days
  /\ \E rng1 \in {RngNext(rng)} :
     \E temp \in {Temperature(day, hour, RngNormal(rng1))} :
     \E sin_elev \in {SinElevation(args.lat, day, hour)} :
     \E rng2 \in {IF SunUp(hour, sin_elev) THEN RngNext(rng1) ELSE rng1} :
     \E irradiance \in {Irradiance(sin_elev, args.tilt, args.azimuth, hour,
                                  RngUniform(rng2))} :
     \E pv_power \in {PvPower(settings, args.total_pwr, irradiance, temp)} :
     \E load_power \in {LoadPower(settings, args.daily_need, hour)} :
     \E energy_balance \in {DecSub(pv_power, load_power)} :
     \E charge_power \in {ChargePower(args, settings, battery_soc,
                                      energy_balance)} :
     \E discharge_power \in {DischargePower(args, settings, battery_soc,
                                            energy_balance)} :
     \E soc_after \in {SocAfter(args, settings, battery_soc, energy_balance,
                                charge_power, discharge_power)} :
     \E soc_end \in {SelfDischarge(args, soc_after)} :
     \E excess_energy \in {ExcessEnergy(args, energy_balance, charge_power)} :
     \E energy_supplied \in {EnergySupplied(args, load_power, pv_power,
                                            discharge_power)} :
     \E missing_energy \in {MissingEnergy(args, load_power, pv_power,
                                          energy_supplied)} :
       /\ loc' = [day |-> day, hour |-> hour, temp |-> temp,
                  sin_elev |-> sin_elev, irradiance |-> irradiance,
                  pv_power |-> pv_power, load_power |-> load_power,
                  battery_charge_power |-> charge_power,
                  battery_discharge_power |-> discharge_power,
                  soc_before |-> battery_soc, soc_after |-> soc_after,
                  excess_energy |-> excess_energy,
                  energy_supplied |-> energy_supplied,
                  missing_energy |-> missing_energy]
       /\ rng' = rng2
       /\ battery_soc' = soc_end
       /\ data' = Append(data,
                         [day               |-> day + 1,
                          hour              |-> hour,
                          temperature       |-> Round1(temp),
                          irradiance        |-> Round1(irradiance),
                          pv_power          |-> Round1(pv_power),
                          load_power        |-> Round1(load_power),
                          energy_supplied   |-> Round1(energy_supplied),
                          missing_energy    |-> Round1(missing_energy),
                          excess_energy     |-> Round1(excess_energy),
                          battery_soc       |->
                            Round1(DecMul(soc_end, D(100, 0))),
                          battery_charge    |-> Round1(charge_power),
                          battery_discharge |-> Round1(discharge_power)])
  /\ hour' = (hour + 1) % 24
  /\ day' = IF hour = 23 THEN day + 1 ELSE day
  /\ UNCHANGED << pc, args, settings, df, metrics, monthly_data, hourly_avg,
                  daily_battery, cache, call, ret >>

\* lines 166-167, 318-323: the call of a function under st.cache_data whose
\* arguments the cache holds: the body does not run, main() has a copy of the
\* table kept.  The key is made of the arguments; the variables of main() the
\* body reads are no part of it.
CacheHit ==
  /\ pc = "call"
  /\ args \in DOMAIN cache
  /\ df' = cache[args]
  /\ pc' = "metrics"
  /\ UNCHANGED << args, settings, rng, day, hour, battery_soc, data, loc,
                  metrics, monthly_data, hourly_avg, daily_battery, cache,
                  call, ret >>

\* line 315 and lines 318-323: the loop is over, the cache keeps the table
\* under the arguments of the call, main() has the table
Return ==
  /\ pc = "loop"
  /\ day >= args.days
  /\ df' = DataFrame(data)
  /\ cache' = [key \in DOMAIN cache \cup {args} |->
                 IF key = args THEN DataFrame(data) ELSE cache[key]]
  /\ pc' = "metrics"
  /\ UNCHANGED << args, settings, rng, day, hour, battery_soc, data, loc,
                  metrics, monthly_data, hourly_avg, daily_battery,
                  call, ret >>

\* lines 325-335: df['pv_power'] of a frame without the column raises KeyError
ComputeMetrics ==
  /\ pc = "metrics"
  /\ IF HasColumn(df, "pv_power")
     THEN metrics' = KeyMetrics(df, args) /\ pc' = "monthly"
     ELSE metrics' = metrics /\ pc' = "KeyError"
  /\ UNCHANGED << args, settings, rng, day, hour, battery_soc, data, loc, df,
                  monthly_data, hourly_avg, daily_battery, cache, call, ret >>

\* lines 409-424
MonthlyAnalysis ==
  /\ pc = "monthly"
  /\ IF args.days >= MonthlyFrom
     THEN /\ df' = WithMonth(df)
          /\ monthly_data' = MonthlyData(WithMonth(df))
     ELSE UNCHANGED << df, monthly_data >>
  /\ pc' = "hourly"
  /\ UNCHANGED << args, settings, rng, day, hour, battery_soc, data, loc,
                  metrics, hourly_avg, daily_battery, cache, call, ret >>

\* lines 451-457
DailyProfile ==
  /\ pc = "hourly"
  /\ hourly_avg' = HourlyAvg(df)
  /\ pc' = "battery"
  /\ UNCHANGED << args, settings, rng, day, hour, battery_soc, data, loc, df,
                  metrics, monthly_data, daily_battery, cache, call, ret >>

\* lines 476-483: battery_enabled is the value main() passed as batt_enabled
BatteryAnalysis ==
  /\ pc = "battery"
  /\ daily_battery' = IF args.batt_enabled THEN DailyBattery(df)
                      ELSE daily_battery
  /\ pc' = "done"
  /\ UNCHANGED << args, settings, rng, day, hour, battery_soc, data, loc, df,
                  metrics, monthly_data, hourly_avg, cache, call, ret >>

\* lines 139-147: the user moves a performance slider or picks another load
\* profile, and Streamlit runs main() again from its first line, in the same
\* session: the variables of main() are unbound again, the cache and numpy's
\* generator are the session's.  The inputs that make the arguments of
\* generate_enhanced_data are left as they are.  The long period, which is run
\* for the sidebar's defaults alone, is not run again.
Rerun ==
  /\ pc \in {"done", "KeyError"}
  /\ args.days <= MaxDays
  /\ \E p \in Sidebars :
       /\ settings' = [temp_coeff |-> p.temp_coeff,
                       dc_wiring_loss |-> p.dc_wiring_loss,
                       module_mismatch |-> p.module_mismatch,
                       soiling_loss |-> p.soiling_loss,
                       converter_efficiency |-> p.converter_efficiency,
                       load_profile |-> p.load_profile,
                       total_stored_energy |-> settings.total_stored_energy]
       /\ settings' # settings
  /\ pc' = "call"
  /\ day' = 0 /\ hour' = 0
  /\ battery_soc' = Zero
  /\ data' = << >>
  /\ loc' = Unset
  /\ df' = Unset
  /\ metrics' = Unset
  /\ monthly_data' = Unset
  /\ hourly_avg' = Unset
  /\ daily_battery' = Unset
  /\ UNCHANGED << args, rng, cache, call, ret >>

Next ==
  \/ Generate
  \/ CacheHit
  \/ HourStep
  \/ Return
  \/ ComputeMetrics
  \/ MonthlyAnalysis
  \/ DailyProfile
  \/ BatteryAnalysis
  \/ Rerun

Spec == Init /\ [][Next]_vars

\* ------------------------------------------------------------------------
\* The methods of PVSystemCalculator: one call of one method, the calculator
\* keeping no state between calls.  call holds the method and its arguments,
\* ret what it returned; main() stands idle.
\* ------------------------------------------------------------------------

\* latitudes, in and out of -90..90
CalcLatitudes == {-100, -60, 0, 46, 90, 100}
CalcDays == {1, 172}
CalcHours == {0, 6, 12, 18}
CalcMinutes == {0, 32}

\* irradiances, W/m2; a float argument can be negative
GhiValues == {D(-500, 0), Zero, D(500, 0)}
DniValues == {D(-800, 0), Zero, D(800, 0)}
DhiValues == {D(-100, 0), Zero, D(100, 0)}
SolarElevations == {-10, 0, 45}
SolarAzimuths == {90, 180}
SurfaceTilts == {0, 20, 90}

\* temperatures, C; at 600 C the correction factor of every module type is
\* below 0
AmbientTemps == {D(-10, 0), D(25, 0), D(40, 0), D(600, 0)}
Irradiances == {Zero, D(800, 0), D(1000, 0)}
ModuleTypes == {"monocrystalline", "thin_film", "cigs"}
PanelPowers == {D(595, 0)}

\* DC powers, W
DcPowers == {D(-1000, 0), Zero, D(1000, 0), D(595 * 21, 0)}

\* a mapping of other values than the defaults
OtherLossFactors ==
  [inverter_efficiency |-> 90, dc_wiring_loss |-> 5, ac_wiring_loss |-> 3,
   soiling_loss |-> 10, shading_loss |-> 0, mismatch_loss |-> 1,
   availability_loss |-> 100]

\* the defaults with a key that is no loss category
WithUnknownKey ==
  [k \in LossKeys \cup {"snow_loss"} |->
     IF k = "snow_loss" THEN 5 ELSE DefaultLossFactors[k]]

\* the defaults without shading_loss
WithoutShading ==
  [k \in LossKeys \ {"shading_loss"} |-> DefaultLossFactors[k]]

\* the defaults with a soiling loss above 1
WithLossAboveOne ==
  [DefaultLossFactors EXCEPT !["soiling_loss"] = 150]

LossFactorChoices ==
  {None, Some(DefaultLossFactors), Some(OtherLossFactors),
   Some(WithUnknownKey), Some(WithoutShading), Some(WithLossAboveOne)}

CalcInit ==
  /\ pc = "idle"
  /\ args = Unset /\ settings = Unset
  /\ rng = 0 /\ day = 0 /\ hour = 0
  /\ battery_soc = Zero
  /\ data = << >>
  /\ loc = Unset /\ df = Unset /\ metrics = Unset
  /\ monthly_data = Unset /\ hourly_avg = Unset /\ daily_battery = Unset
  /\ cache = EmptyCache
  /\ CalcIdle

SolarPosition ==
  /\ call = Unset
  /\ UNCHANGED appVars
  /\ \E latitude \in CalcLatitudes, day_of_year \in CalcDays,
     h \in CalcHours, minute \in CalcMinutes :
    /\ call' = [method |-> "calculate_solar_position", latitude |-> latitude,
                day_of_year |-> day_of_year, hour |-> h, minute |-> minute]
    /\ ret' = calculate_solar_position(latitude, day_of_year, h, minute)

TiltedSurface ==
  /\ call = Unset
  /\ UNCHANGED appVars
  /\ \E ghi \in GhiValues, dni \in DniValues, dhi \in DhiValues,
     solar_elevation \in SolarElevations, solar_azimuth \in SolarAzimuths,
     surface_tilt \in SurfaceTilts :
    /\ call' = [method |-> "calculate_irradiance_on_tilted_surface",
                ghi |-> ghi, dni |-> dni, dhi |-> dhi,
                solar_elevation |-> solar_elevation,
                solar_azimuth |-> solar_azimuth,
                surface_tilt |-> surface_tilt, surface_azimuth |-> 180]
    /\ ret' = [kind  |-> "irradiance",
               value |-> calculate_irradiance_on_tilted_surface(
                           ghi, dni, dhi, solar_elevation, solar_azimuth,
                           surface_tilt, 180)]

TemperatureEffect ==
  /\ call = Unset
  /\ UNCHANGED appVars
  /\ \E ambient_temp \in AmbientTemps, irradiance \in Irradiances,
     module_type \in ModuleTypes :
    /\ call' = [method |-> "calculate_temperature_effect",
                ambient_temp |-> ambient_temp, irradiance |-> irradiance,
                module_type |-> module_type]
    /\ ret' = [kind  |-> "factor",
               value |-> calculate_temperature_effect(ambient_temp, irradiance,
                                                      module_type)]

DcPower ==
  /\ call = Unset
  /\ UNCHANGED appVars
  /\ \E irradiance \in Irradiances, temperature \in AmbientTemps,
     panel_power \in PanelPowers, module_type \in ModuleTypes :
    /\ call' = [method |-> "calculate_dc_power", irradiance |-> irradiance,
                temperature |-> temperature, panel_power |-> panel_power,
                module_type |-> module_type]
    /\ ret' = [kind  |-> "power",
               value |-> calculate_dc_power(irradiance, temperature,
                                            panel_power, module_type)]

SystemLosses ==
  /\ call = Unset
  /\ UNCHANGED appVars
  /\ \E dc_power \in DcPowers, loss_factors \in LossFactorChoices :
    /\ call' = [method |-> "calculate_system_losses", dc_power |-> dc_power,
                loss_factors |-> loss_factors]
    /\ ret' = calculate_system_losses(dc_power, loss_factors)

NextCalc ==
  \/ SolarPosition
  \/ TiltedSurface
  \/ TemperatureEffect
  \/ DcPower
  \/ SystemLosses

SpecCalc == CalcInit /\ [][NextCalc]_vars

\* ------------------------------------------------------------------------
\* Properties.
\* ------------------------------------------------------------------------

\* C1: for every hour whose irradiance is > 0, the pv_power of the hour is the
\* base DC power times the temperature derating times the retention fraction
\* of each of the seven loss categories, each applied once: DC wiring,
\* soiling, mismatch and the converter's efficiency as the sidebar gives them,
\* shading, AC wiring and availability (which the sidebar does not give) at
\* the calculator's defaults.
C1_SevenLossesApplied ==
  (loc # Unset /\ DecLt(Zero, loc.irradiance)) =>
    LET keep(x)  == DecSub(One, Percent(x))
        dflt(k)  == DecSub(One, D(DefaultLossFactors[k], 2))
        derated  == DecMul(BasePower(args.total_pwr, loc.irradiance),
                           TempDerating(settings, loc.temp))
        p1       == DecMul(derated, keep(settings.dc_wiring_loss))
        p2       == DecMul(p1, keep(settings.soiling_loss))
        p3       == DecMul(p2, dflt("shading_loss"))
        p4       == DecMul(p3, keep(settings.module_mismatch))
        p5       == DecMul(p4, Percent(settings.converter_efficiency))
        p6       == DecMul(p5, dflt("ac_wiring_loss"))
        p7       == DecMul(p6, dflt("availability_loss"))
    IN  DecCmp(loc.pv_power, Float(DecMax(Zero, p7))) = 0

\* C2, as stated: for dc_power >= 0 and a mapping holding the seven keys (or
\* None), calculate_system_losses returns dc_power x inverter_efficiency x the
\* product of (1 - loss) over the six loss keys, and 1000 W with the defaults
\* gives 859.5 W to one decimal.
C2_AsStated ==
  (/\ call # Unset
   /\ call.method = "calculate_system_losses"
   /\ DecLe(Zero, call.dc_power)
   /\ (call.loss_factors # None =>
         LossKeys \subseteq DOMAIN call.loss_factors[1])) =>
    LET lf == IF call.loss_factors = None THEN DefaultLossFactors
              ELSE call.loss_factors[1]
        keep(k) == DecSub(One, D(lf[k], 2))
        product ==
          DecMul(DecMul(call.dc_power, D(lf["inverter_efficiency"], 2)),
                 DecMul(DecMul(DecMul(keep("dc_wiring_loss"),
                                      keep("ac_wiring_loss")),
                               DecMul(keep("soiling_loss"),
                                      keep("shading_loss"))),
                        DecMul(keep("mismatch_loss"),
                               keep("availability_loss"))))
    IN  /\ ret.kind = "power"
        /\ DecCmp(ret.value, product) = 0
        /\ (call.dc_power = D(1000, 0) /\ call.loss_factors = None) =>
             Round1(ret.value) = 8595

\* C2, amended: for dc_power >= 0 and a mapping holding the seven keys (or
\* None), calculate_system_losses returns the larger of 0 and dc_power x
\* inverter_efficiency x the product of (1 - loss) over the six loss keys,
\* which is that product when no loss is above 1; 1000 W with the defaults
\* gives 859.0 W to one decimal.
C2_LossProduct ==
  (/\ call # Unset
   /\ call.method = "calculate_system_losses"
   /\ DecLe(Zero, call.dc_power)
   /\ (call.loss_factors # None =>
         LossKeys \subseteq DOMAIN call.loss_factors[1])) =>
    LET lf == IF call.loss_factors = None THEN DefaultLossFactors
              ELSE call.loss_factors[1]
        keep(k) == DecSub(One, D(lf[k], 2))
        product ==
          DecMul(DecMul(call.dc_power, D(lf["inverter_efficiency"], 2)),
                 DecMul(DecMul(DecMul(keep("dc_wiring_loss"),
                                      keep("ac_wiring_loss")),
                               DecMul(keep("soiling_loss"),
                                      keep("shading_loss"))),
                        DecMul(keep("mismatch_loss"),
                               keep("availability_loss"))))
    IN  /\ ret.kind = "power"
        /\ DecCmp(ret.value, DecMax(product, Zero)) = 0
        /\ (\A k \in LossKeys : lf[k] >= 0 /\ lf[k] <= 100) =>
             DecCmp(ret.value, product) = 0
        /\ (call.dc_power = D(1000, 0) /\ call.loss_factors = None) =>
             Round1(ret.value) = 8590

\* a call with 1000 W and the defaults has returned 859.0 W to one decimal
C2_Witness ==
  /\ call # Unset
  /\ call.method = "calculate_system_losses"
  /\ call.dc_power = D(1000, 0)
  /\ call.loss_factors = None
  /\ ret.kind = "power"
  /\ Round1(ret.value) = 8590

\* C3: calculate_system_losses returns no power for a mapping that holds a
\* key outside the seven loss categories.
C3_UnknownKeyRejected ==
  (/\ call # Unset
   /\ call.method = "calculate_system_losses"
   /\ call.loss_factors # None
   /\ ~(DOMAIN call.loss_factors[1] \subseteq LossKeys)) =>
    ret.kind # "power"

\* C4: whenever solar_elevation <= 0, calculate_irradiance_on_tilted_surface
\* returns exactly 0, whatever ghi, dni, dhi, the tilt and the azimuths are.
C4_DarkBelowHorizon ==
  (/\ call # Unset
   /\ call.method = "calculate_irradiance_on_tilted_surface"
   /\ call.solar_elevation <= 0) =>
    ret.value = Zero

\* C5: in the table generate_enhanced_data returns, every record of an hour
\* outside 5..19, and every record of an hour in which the solar elevation is
\* <= 0, has irradiance = 0 and pv_power = 0.
C5_DarkHoursAreZero ==
  (pc = "metrics") =>
    \A i \in 1..Len(df.rows) :
      LET r == df.rows[i]
      IN  (\/ r.hour < 5
           \/ r.hour > 19
           \/ DecLe(SinElevation(args.lat, r.day - 1, r.hour), Zero)) =>
            r.irradiance = 0 /\ r.pv_power = 0

\* a table has been returned that holds an hour in 5..19 with the sun down,
\* with no irradiance and no power, and an hour with irradiance and power
C5_Witness ==
  /\ pc = "metrics"
  /\ \E i \in 1..Len(df.rows) :
       /\ df.rows[i].hour \in 5..19
       /\ DecLe(SinElevation(args.lat, df.rows[i].day - 1, df.rows[i].hour),
                Zero)
       /\ df.rows[i].irradiance = 0 /\ df.rows[i].pv_power = 0
  /\ \E i \in 1..Len(df.rows) :
       df.rows[i].irradiance > 0 /\ df.rows[i].pv_power > 0

\* C6: calculate_solar_position returns no position for a latitude with
\* |latitude| > 90.
C6_LatitudeRejected ==
  (/\ call # Unset
   /\ call.method = "calculate_solar_position"
   /\ Abs(call.latitude) > 90) =>
    ret.kind # "position"

\* C7: generate_enhanced_data returns no table when days = 0.
C7_NoEmptyTable ==
  (df # Unset) => args.days > 0

\* C8: once generate_enhanced_data has returned the table, no step of main()
\* adds, removes or modifies a row or a column of it, up to the next run of
\* main().
C8_TableUntouched ==
  [][(df # Unset /\ pc' # "call") => df' = df]_vars

\* C9: the azimuth factor of azimuth = 0 is 1, and with azimuth = 0 every hour
\* in 5..19 with the sun up has an irradiance > 0.
C9_SouthIsZero ==
  (/\ loc # Unset
   /\ args.azimuth = 0
   /\ loc.hour \in 5..19
   /\ DecLt(Zero, loc.sin_elev)) =>
    AzimuthFactor(args.azimuth) = One /\ DecLt(Zero, loc.irradiance)

\* C10: when the total PV energy is 0, system_efficiency is not reported as
\* the number 0.
C10_DegenerateNotZero ==
  (metrics # Unset /\ DecLe(metrics.total_pv_energy, Zero)) =>
    metrics.system_efficiency # Zero

\* C11: the rows a run of generate_enhanced_data has appended when its loop
\* ends are a function of its arguments and of the sidebar settings alone,
\* whatever numpy's generator held before the run: two runs with the same
\* arguments and settings append the same rows in the same order.
C11_RunsAgree ==
  (pc = "loop" /\ day >= args.days) => data = ComputedRows(args, settings)

\* a run has ended with rows whose irradiance was drawn from the generator
C11_Witness ==
  /\ pc = "loop" /\ day >= args.days
  /\ \E i \in 1..Len(data) : data[i].irradiance > 0
  /\ data = ComputedRows(args, settings)

\* C12: generate_enhanced_data appends exactly days x 24 records, one per
\* (day, hour) with day in 1..days and hour in 0..23, in strictly ascending
\* (day, hour) order: the record i is the one of day (i-1) div 24 + 1 and hour
\* (i-1) mod 24.  During the run every step keeps the records appended so far
\* as they are and adds at most one after them.
C12_AppendOnly ==
  /\ [](pc = "loop" => Len(data) = 24 * day + hour)
  /\ []((pc = "loop" /\ day >= args.days) =>
          /\ Len(data) = 24 * args.days
          /\ \A i \in 1..Len(data) :
               /\ data[i].day = ((i - 1) \div 24) + 1
               /\ data[i].hour = (i - 1) % 24)
  /\ [][pc = "loop" =>
          /\ Len(data') \in {Len(data), Len(data) + 1}
          /\ \A i \in 1..Len(data) : data'[i] = data[i]]_vars

\* the loop of a period of two days or more has ended, with days x 24 records
C12_Witness ==
  /\ pc = "loop" /\ day >= args.days
  /\ args.days >= 2
  /\ Len(data) = 24 * args.days
  /\ data[Len(data)].day = args.days /\ data[Len(data)].hour = 23

\* the sum of the column k of a roll-up over its groups S
RECURSIVE SumOverGroups(_, _, _)
SumOverGroups(rollup, S, k) ==
  IF S = {} THEN Zero
  ELSE LET g == CHOOSE g \in S : TRUE
       IN  DecAdd(rollup[g][k], SumOverGroups(rollup, S \ {g}, k))

\* C13: for an analysis period of at least 90 days, every record of the table
\* falls in exactly one month of the roll-up, the months being (day-1)//30 + 1,
\* and the sum over the months of the monthly pv energy equals the total pv
\* energy of the key metrics; likewise for the supplied, missing and excess
\* energy.
C13_MonthsAddUp ==
  (monthly_data # Unset) =>
    /\ args.days >= MonthlyFrom
    /\ \A i \in 1..Len(df.rows) :
         /\ df.rows[i].month = ((df.rows[i].day - 1) \div 30) + 1
         /\ df.rows[i].month \in DOMAIN monthly_data
    /\ DecCmp(SumOverGroups(monthly_data, DOMAIN monthly_data, "pv_energy_kwh"),
              metrics.total_pv_energy) = 0
    /\ DecCmp(SumOverGroups(monthly_data, DOMAIN monthly_data, "supplied_kwh"),
              metrics.total_energy_supplied) = 0
    /\ DecCmp(SumOverGroups(monthly_data, DOMAIN monthly_data, "missing_kwh"),
              metrics.total_missing_energy) = 0
    /\ DecCmp(SumOverGroups(monthly_data, DOMAIN monthly_data, "excess_kwh"),
              metrics.total_excess_energy) = 0

\* the roll-up of a period of 90 days holds three months, each with pv energy
C13_Witness ==
  /\ monthly_data # Unset
  /\ DOMAIN monthly_data = {1, 2, 3}
  /\ \A m \in DOMAIN monthly_data : DecLt(Zero, monthly_data[m].pv_energy_kwh)
  /\ DecCmp(SumOverGroups(monthly_data, DOMAIN monthly_data, "pv_energy_kwh"),
            metrics.total_pv_energy) = 0

\* C14: calculate_irradiance_on_tilted_surface, calculate_dc_power and
\* calculate_system_losses each return a value >= 0 for all inputs, negative
\* ghi, dni, dhi, a negative cosine of incidence, a temperature correction
\* factor below 0 and a negative dc_power included, while
\* calculate_temperature_effect returns its factor as it is: at 600 C it is
\* below 0.
C14_NonNegative ==
  (call # Unset) =>
    /\ call.method = "calculate_irradiance_on_tilted_surface" =>
         DecLe(Zero, ret.value)
    /\ call.method = "calculate_dc_power" => DecLe(Zero, ret.value)
    /\ (call.method = "calculate_system_losses" /\ ret.kind = "power") =>
         DecLe(Zero, ret.value)
    /\ (call.method = "calculate_temperature_effect"
         /\ DecLe(D(600, 0), call.ambient_temp)) =>
         DecLt(ret.value, Zero)

\* calculate_dc_power has returned 0 for an irradiance > 0 at a temperature
\* whose correction factor is below 0
C14_Witness ==
  /\ call # Unset
  /\ call.method = "calculate_dc_power"
  /\ DecLt(Zero, call.irradiance)
  /\ DecLt(calculate_temperature_effect(call.temperature, call.irradiance,
                                        call.module_type), Zero)
  /\ ret.value = Zero

\* C15: with the battery enabled, after every pass of the hour loop (the
\* discharge followed by the self-discharge) battery_soc >= min_soc_pct/100.
C15_SocAboveMin ==
  (pc = "loop" /\ args.batt_enabled) =>
    DecLe(Percent(D(args.min_soc_pct, 0)), battery_soc)

\* C17: with the battery enabled, in every hour in which the battery charges,
\* the rise of battery_soc in the hour, before the self-discharge, equals
\* 0.9 x battery_charge / battery capacity, and excess_energy is the surplus
\* less battery_charge.
C17_ChargeStored ==
  (/\ loc # Unset
   /\ args.batt_enabled
   /\ DecLt(Zero, loc.battery_charge_power)) =>
    /\ DecCmp(DecSub(loc.soc_after, loc.soc_before),
              DecMul(DecDiv(loc.battery_charge_power, Capacity(args, settings)),
                     D(9, 1))) = 0
    /\ DecCmp(loc.excess_energy,
              DecSub(DecSub(loc.pv_power, loc.load_power),
                     loc.battery_charge_power)) = 0

\* C18: with the battery enabled and max_soc_pct in 80..100, battery_soc,
\* which starts at 0.8, is <= max_soc_pct/100 after every pass of the hour
\* loop.
C18_SocBelowMax ==
  (pc = "loop" /\ args.batt_enabled /\ args.max_soc_pct \in 80..100) =>
    DecLe(battery_soc, Percent(D(args.max_soc_pct, 0)))

\* an hour has charged the battery up to max_soc_pct/100, the charge being
\* more than the battery could take
C18_Witness ==
  /\ pc = "loop" /\ args.batt_enabled /\ loc # Unset
  /\ DecLt(Zero, loc.battery_charge_power)
  /\ DecCmp(loc.soc_after, Percent(D(args.max_soc_pct, 0))) = 0
  /\ DecLt(Percent(D(args.max_soc_pct, 0)),
           DecAdd(loc.soc_before,
                  DecMul(DecDiv(loc.battery_charge_power,
                                Capacity(args, settings)), D(9, 1))))
  /\ DecLt(battery_soc, Percent(D(args.max_soc_pct, 0)))

\* C19: in every hour, with or without battery, energy_supplied +
\* missing_energy = load_power before rounding, energy_supplied <= load_power,
\* and battery_charge and battery_discharge are not both > 0.
C19_LoadAccounted ==
  (loc # Unset) =>
    /\ DecCmp(DecAdd(loc.energy_supplied, loc.missing_energy),
              loc.load_power) = 0
    /\ DecLe(loc.energy_supplied, loc.load_power)
    /\ ~(DecLt(Zero, loc.battery_charge_power)
         /\ DecLt(Zero, loc.battery_discharge_power))

\* an hour in which the battery covered a part of the load only
C19_Witness ==
  /\ loc # Unset
  /\ args.batt_enabled
  /\ DecLt(Zero, loc.battery_discharge_power)
  /\ DecLt(loc.energy_supplied, loc.load_power)
  /\ DecLt(Zero, loc.missing_energy)
  /\ DecCmp(DecAdd(loc.energy_supplied, loc.missing_energy),
            loc.load_power) = 0

\* C16: across the runs of main() of a session in which the sidebar settings
\* change, a call of generate_enhanced_data that the cache serves gives main()
\* the table that a run of the body with the arguments and the settings of
\* that moment would return.
C16_HitIsFresh ==
  [][(pc = "call" /\ pc' = "metrics") =>
       df' = DataFrame(ComputedRows(args, settings))]_vars

==========================================================================
